---- MODULE Spec2Model ----
(***************************************************************************)
(* Model of the configuration validator, src/api/src/schemas/index.ts.     *)
(*                                                                         *)
(* The validator reads the lower-cased configuration snapshot, parses it   *)
(* with the zod schema `schema` (safeParse) and either returns the list of *)
(* formatted issues (returnErrors = true) or writes them to the logger     *)
(* (returnErrors = false).  The zod combinators the schema is built from   *)
(* are modelled by what zod 3 does with them: every parser returns a       *)
(* status ("valid", "dirty", "aborted") and the issues it added.           *)
(***************************************************************************)
EXTENDS Integers, Sequences, FiniteSets, TLC

VARIABLES
    configuration,  \* the snapshot config.lowercase() returns (line 130)
    called,         \* has the validator been called at all
    returnErrors,   \* the argument of the most recent call (line 129)
    validate,       \* the safeParse result of the most recent call (line 132)
    errors,         \* the array the most recent call returned (lines 131, 147)
    log,            \* the lines the most recent call wrote to the logger
    previous        \* the outcome of the call before the most recent one

vars == <<configuration, called, returnErrors, validate, errors, log, previous>>

(***************************************************************************)
(* JavaScript values.  A value carries the type zod's getParsedType finds. *)
(* Numbers are integers here; NaN is the one non-integer kept, because     *)
(* z.number() treats it as a type of its own.                              *)
(***************************************************************************)
Undefined == [k |-> "undefined"]
Null == [k |-> "null"]
NaN == [k |-> "nan"]
Bool(b) == [k |-> "boolean", b |-> b]
Num(n) == [k |-> "number", n |-> n]
Str(s) == [k |-> "string", s |-> s]
Arr(items) == [k |-> "array", items |-> items]
Obj(f) == [k |-> "object", f |-> f]

getParsedType(v) == v.k

\* obj[name]: undefined when the key is missing
Field(v, name) ==
    IF v.k = "object" /\ name \in DOMAIN v.f THEN v.f[name] ELSE Undefined

IsPrefix(p, q) == Len(p) <= Len(q) /\ SubSeq(q, 1, Len(p)) = p

Range(s) == {s[i] : i \in 1..Len(s)}

(***************************************************************************)
(* Strings.  A message is kept as the sequence of the fragments it is      *)
(* concatenated from, so that toLowerCase can be applied to it; Concat     *)
(* gives the string itself.                                                *)
(***************************************************************************)
RECURSIVE Concat(_)
Concat(fragments) ==
    IF fragments = <<>> THEN ""
    ELSE Head(fragments) \o Concat(Tail(fragments))

\* Array.prototype.join
RECURSIVE Join(_, _)
Join(parts, sep) ==
    IF parts = <<>> THEN ""
    ELSE IF Len(parts) = 1 THEN parts[1]
    ELSE parts[1] \o sep \o Join(Tail(parts), sep)

\* String.prototype.toLowerCase on one fragment: the fragments with an upper
\* case letter are the fixed texts of zod's error map and of the refinements;
\* type names, numbers and configuration values are lower case already.
LowerFragment(f) ==
    CASE f = "Required" -> "required"
      [] f = "Expected " -> "expected "
      [] f = "Invalid input" -> "invalid input"
      [] f = "Invalid enum value. Expected " -> "invalid enum value. expected "
      [] f = "Invalid literal value, expected " -> "invalid literal value, expected "
      [] f = "Number must be greater than or equal to " -> "number must be greater than or equal to "
      [] f = "Number must be less than or equal to " -> "number must be less than or equal to "
      [] f = "Array must contain at least " -> "array must contain at least "
      [] f = "Width and height must be multiples of 64" -> "width and height must be multiples of 64"
      [] f = "Size must be between 589,824 (768x768) and 1,048,576 (1024x1024) for engine_id containing 768"
           -> "size must be between 589,824 (768x768) and 1,048,576 (1024x1024) for engine_id containing 768"
      [] f = "Size must be between 262,144 (512x512) and 1,048,576 (1024x1024) for other engine_ids"
           -> "size must be between 262,144 (512x512) and 1,048,576 (1024x1024) for other engine_ids"
      [] OTHER -> f

toLowerCase(message) == [i \in 1..Len(message) |-> LowerFragment(message[i])]

\* String.prototype.includes on a string kept as its characters
includes(chars, sub) ==
    \E i \in 1..(Len(chars) - Len(sub) + 1) :
        SubSeq(chars, i, i + Len(sub) - 1) = sub

(***************************************************************************)
(* zod: parse results and issues.                                          *)
(***************************************************************************)
OK == [status |-> "valid", issues |-> <<>>]
INVALID(issues) == [status |-> "aborted", issues |-> issues]
DIRTY(issues) == [status |-> "dirty", issues |-> issues]

Issue(code, path, message) == [code |-> code, path |-> path, message |-> message]

\* zod's default error map for invalid_type
InvalidType(expected, v, path) ==
    Issue("invalid_type", path,
          IF getParsedType(v) = "undefined" THEN <<"Required">>
          ELSE <<"Expected ", expected, ", received ", getParsedType(v)>>)

\* util.joinValues
joinValues(values) == Join([i \in 1..Len(values) |-> "'" \o values[i] \o "'"], " | ")

ZodString(v, path) ==
    IF getParsedType(v) = "string" THEN OK
    ELSE INVALID(<<InvalidType("string", v, path)>>)

ZodBoolean(v, path) ==
    IF getParsedType(v) = "boolean" THEN OK
    ELSE INVALID(<<InvalidType("boolean", v, path)>>)

\* the bounds taken as exclusive
NumberCheckFailsExclusive(check, n) ==
    IF check.kind = "min" THEN n <= check.value ELSE n >= check.value

\* one .min(n) / .max(n) check of a z.number(): both bounds are inclusive
NumberCheckFails(check, n) ==
    IF check.kind = "min" THEN n < check.value ELSE n > check.value

NumberCheckIssue(check, path) ==
    IF check.kind = "min"
    THEN Issue("too_small", path,
               <<"Number must be greater than or equal to ", ToString(check.value)>>)
    ELSE Issue("too_big", path,
               <<"Number must be less than or equal to ", ToString(check.value)>>)

\* z.number() with its checks: a wrong type aborts, a failed check only
\* dirties the result and the remaining checks still run
ZodNumber(v, path, checks) ==
    IF getParsedType(v) # "number" THEN INVALID(<<InvalidType("number", v, path)>>)
    ELSE LET F[i \in 0..Len(checks)] ==
                 IF i = 0 THEN <<>>
                 ELSE F[i - 1] \o (IF NumberCheckFails(checks[i], v.n)
                                   THEN <<NumberCheckIssue(checks[i], path)>>
                                   ELSE <<>>)
             found == F[Len(checks)]
         IN  IF found = <<>> THEN OK ELSE DIRTY(found)

Min(n) == [kind |-> "min", value |-> n]
Max(n) == [kind |-> "max", value |-> n]

\* z.enum(values)
ZodEnum(v, path, values) ==
    IF getParsedType(v) # "string"
    THEN INVALID(<<InvalidType(joinValues(values), v, path)>>)
    ELSE IF v.s \in Range(values) THEN OK
    ELSE INVALID(<<Issue("invalid_enum_value", path,
                         <<"Invalid enum value. Expected ", joinValues(values),
                           ", received '", v.s, "'">>)>>)

\* z.literal(false)
ZodLiteralFalse(v, path) ==
    IF getParsedType(v) = "boolean" /\ v.b = FALSE THEN OK
    ELSE INVALID(<<Issue("invalid_literal", path,
                         <<"Invalid literal value, expected ", "false">>)>>)

\* ParseStatus.mergeObjectSync / mergeArray: every member is parsed, the
\* issues of all of them are kept; one aborted member aborts the whole
Merge(results) ==
    LET F[i \in 0..Len(results)] ==
            IF i = 0 THEN <<>> ELSE F[i - 1] \o results[i].issues
        statuses == {results[i].status : i \in 1..Len(results)}
    IN  [status |-> IF "aborted" \in statuses THEN "aborted"
                    ELSE IF "dirty" \in statuses THEN "dirty"
                    ELSE "valid",
         issues |-> F[Len(results)]]

\* z.object(shape), given the results of the shape's members
ZodObject(v, path, members) ==
    IF getParsedType(v) # "object" THEN INVALID(<<InvalidType("object", v, path)>>)
    ELSE Merge(members)

\* the elements of an array value (none when the value is no array)
Items(v) == IF getParsedType(v) = "array" THEN v.items ELSE <<>>

\* the path of the element at (1-based) position i: the index is 0-based
ElementPath(path, i) == Append(path, ToString(i - 1))

\* z.array(element).min(n), given the results of the elements: the length
\* check dirties, and every element is parsed whatever the length
ZodArray(v, path, elements, min) ==
    IF getParsedType(v) # "array" THEN INVALID(<<InvalidType("array", v, path)>>)
    ELSE LET short == IF Len(v.items) < min
                      THEN DIRTY(<<Issue("too_small", path,
                                         <<"Array must contain at least ", ToString(min),
                                           " element(s)">>)>>)
                      ELSE OK
         IN  Merge(<<short>> \o elements)

\* a union that forgets every option but the first
ZodUnionFirstOnly(options, path) ==
    IF options[1].status = "valid" THEN OK
    ELSE IF options[1].status = "dirty" THEN options[1]
    ELSE INVALID(<<Issue("invalid_union", path, <<"Invalid input">>)>>)

\* ZodUnion._parse (synchronous): the first valid option wins; otherwise the
\* first dirty option wins and its issues are reported; otherwise the issues
\* of the options are folded into one invalid_union issue at the union's path
ZodUnion(options, path) ==
    IF \E i \in 1..Len(options) : options[i].status = "valid" THEN OK
    ELSE IF \E i \in 1..Len(options) : options[i].status = "dirty"
    THEN LET first == CHOOSE i \in 1..Len(options) :
                          /\ options[i].status = "dirty"
                          /\ \A j \in 1..(i - 1) : options[j].status # "dirty"
         IN  options[first]
    ELSE INVALID(<<Issue("invalid_union", path, <<"Invalid input">>)>>)

\* .optional() in place of .nullish(): null is handed to the inner schema
ZodOptionalOnly(v, inner) ==
    IF getParsedType(v) = "undefined" THEN OK ELSE inner

\* .nullish(): undefined and null are accepted without looking further
ZodNullish(v, inner) ==
    IF getParsedType(v) \in {"undefined", "null"} THEN OK ELSE inner

\* .refine(check, message), given the outcome `passes` of the check on the
\* parsed value: the check is skipped when the inner parse aborted; a failed
\* check adds a custom issue and dirties
ZodRefine(inner, path, passes, message) ==
    IF inner.status = "aborted" THEN inner
    ELSE IF passes THEN inner
    ELSE DIRTY(inner.issues \o <<Issue("custom", path, <<message>>)>>)

(***************************************************************************)
(* The refinements of stabilityai.image (lines 9-33 and 105-116).          *)
(* engine_id is kept as the sequence of its characters.                    *)
(***************************************************************************)
validateSizeFor768(value) ==
    LET width == Field(value, "width").n
        height == Field(value, "height").n
        engine_id == Field(value, "engine_id").s
        size == width * height
    IN  ~(includes(engine_id, <<"7", "6", "8">>) /\ (size < 589824 \/ size > 1048576))

validateSizeForOtherEngines(value) ==
    LET width == Field(value, "width").n
        height == Field(value, "height").n
        engine_id == Field(value, "engine_id").s
        size == width * height
    IN  ~(includes(engine_id, <<"7", "6", "8">>) = FALSE /\ (size < 262144 \/ size > 1048576))

\* line 106; x % 64 === 0 agrees with the mathematical modulus on every integer
multipleOf64(value) ==
    Field(value, "width").n % 64 = 0 /\ Field(value, "height").n % 64 = 0

MessageMultipleOf64 == "Width and height must be multiples of 64"
MessageSizeFor768 ==
    "Size must be between 589,824 (768x768) and 1,048,576 (1024x1024) for engine_id containing 768"
MessageSizeForOtherEngines ==
    "Size must be between 262,144 (512x512) and 1,048,576 (1024x1024) for other engine_ids"

(***************************************************************************)
(* The schema (lines 35-127), section by section.                          *)
(***************************************************************************)
LogLevels == <<"silent", "error", "warn", "info", "http", "verbose", "debug", "silly">>
ImageOrders == <<"random", "recent">>
OpenaiImageSizes == <<"1024x1024", "512x512", "256x256">>
StabilityStyles ==
    <<"3d-model", "analog-film", "anime", "cinematic", "comic-book", "digital-art",
      "enhance", "fantasy-art", "isometric", "line-art", "low-poly",
      "modeling-compound", "neon-punk", "origami", "photographic", "pixel-art",
      "tile-texture">>

SchemaTelemetry(v, path) == ZodBoolean(v, path)

SchemaLogs(v, path) ==
    ZodObject(v, path,
        <<ZodEnum(Field(v, "level"), Append(path, "level"), LogLevels)>>)

SchemaTime(v, path) ==
    ZodObject(v, path,
        <<ZodString(Field(v, "timezone"), Append(path, "timezone")),
          ZodNullish(Field(v, "format"),
                     ZodString(Field(v, "format"), Append(path, "format")))>>)

SchemaImage(v, path) ==
    ZodObject(v, path,
        <<ZodNumber(Field(v, "interval"), Append(path, "interval"), <<Min(10)>>),
          ZodEnum(Field(v, "order"), Append(path, "order"), ImageOrders)>>)

SchemaTranscript(v, path) ==
    ZodObject(v, path,
        <<ZodString(Field(v, "cron"), Append(path, "cron")),
          ZodNumber(Field(v, "minutes"), Append(path, "minutes"), <<>>),
          ZodNumber(Field(v, "minimum"), Append(path, "minimum"), <<Min(1)>>)>>)

SchemaOpenaiSummary(v, path) ==
    ZodObject(v, path,
        <<ZodString(Field(v, "model"), Append(path, "model")),
          ZodString(Field(v, "prompt"), Append(path, "prompt")),
          ZodString(Field(v, "random"), Append(path, "random"))>>)

SchemaOpenaiImageObject(v, path) ==
    ZodObject(v, path,
        <<ZodEnum(Field(v, "size"), Append(path, "size"), OpenaiImageSizes),
          LET style == Field(v, "style")
              at == Append(path, "style")
          IN  ZodArray(style, at,
                  [i \in 1..Len(Items(style)) |->
                      ZodString(Items(style)[i], ElementPath(at, i))], 1)>>)

SchemaOpenaiImage(v, path) ==
    ZodUnion(<<SchemaOpenaiImageObject(v, path), ZodLiteralFalse(v, path)>>, path)

SchemaOpenai(v, path) ==
    ZodObject(v, path,
        <<ZodString(Field(v, "key"), Append(path, "key")),
          SchemaOpenaiSummary(Field(v, "summary"), Append(path, "summary")),
          SchemaOpenaiImage(Field(v, "image"), Append(path, "image"))>>)

SchemaStabilityStyle(v, path) == ZodEnum(v, path, StabilityStyles)

SchemaStabilityImageObject(v, path) ==
    ZodObject(v, path,
        <<ZodString(Field(v, "engine_id"), Append(path, "engine_id")),
          ZodNumber(Field(v, "width"), Append(path, "width"), <<>>),
          ZodNumber(Field(v, "height"), Append(path, "height"), <<>>),
          ZodNumber(Field(v, "timeout"), Append(path, "timeout"), <<>>),
          ZodNumber(Field(v, "cfg_scale"), Append(path, "cfg_scale"), <<Min(0), Max(35)>>),
          ZodNumber(Field(v, "samples"), Append(path, "samples"), <<Min(1), Max(10)>>),
          ZodNumber(Field(v, "steps"), Append(path, "steps"), <<Min(10), Max(50)>>),
          LET style == Field(v, "style")
              at == Append(path, "style")
          IN  ZodArray(style, at,
                  [i \in 1..Len(Items(style)) |->
                      SchemaStabilityStyle(Items(style)[i], ElementPath(at, i))], 1)>>)

\* the three chained refinements: each one wraps the one before it
SchemaStabilityImageRefined(v, path) ==
    ZodRefine(
        ZodRefine(
            ZodRefine(SchemaStabilityImageObject(v, path),
                      path, multipleOf64(v), MessageMultipleOf64),
            path, validateSizeFor768(v), MessageSizeFor768),
        path, validateSizeForOtherEngines(v), MessageSizeForOtherEngines)

SchemaStabilityImage(v, path) ==
    ZodUnion(<<SchemaStabilityImageRefined(v, path), ZodLiteralFalse(v, path)>>, path)

SchemaStabilityai(v, path) ==
    ZodNullish(v,
        ZodObject(v, path,
            <<ZodString(Field(v, "key"), Append(path, "key")),
              SchemaStabilityImage(Field(v, "image"), Append(path, "image"))>>))

SchemaSystemStorage(v, path) ==
    ZodObject(v, path, <<ZodString(Field(v, "path"), Append(path, "path"))>>)

SchemaSystem(v, path) ==
    ZodObject(v, path,
        <<ZodNumber(Field(v, "port"), Append(path, "port"), <<>>),
          SchemaSystemStorage(Field(v, "storage"), Append(path, "storage"))>>)

schema(v) ==
    ZodObject(v, <<>>,
        <<SchemaTelemetry(Field(v, "telemetry"), <<"telemetry">>),
          SchemaLogs(Field(v, "logs"), <<"logs">>),
          SchemaTime(Field(v, "time"), <<"time">>),
          SchemaImage(Field(v, "image"), <<"image">>),
          SchemaTranscript(Field(v, "transcript"), <<"transcript">>),
          SchemaOpenai(Field(v, "openai"), <<"openai">>),
          SchemaStabilityai(Field(v, "stabilityai"), <<"stabilityai">>),
          SchemaSystem(Field(v, "system"), <<"system">>)>>)

\* schema.safeParse: success only when the result is valid (not dirty)
safeParse(v) ==
    LET result == schema(v)
    IN  [success |-> result.status = "valid", issues |-> result.issues]

(***************************************************************************)
(* The collaborators of the validator.                                     *)
(***************************************************************************)
RedactionMarker == Str("[redacted]")

\* redact(configuration): the same structure with the API keys replaced
RedactKey(section) ==
    IF getParsedType(section) = "object" /\ "key" \in DOMAIN section.f
    THEN Obj([section.f EXCEPT !["key"] = RedactionMarker])
    ELSE section

redact(cfg) ==
    Obj([cfg.f EXCEPT !["openai"] = RedactKey(cfg.f["openai"]),
                      !["stabilityai"] = RedactKey(cfg.f["stabilityai"])])

\* util.inspect(value, {depth: null}): the text shows the whole value at every
\* depth; the text is kept as the value it renders
inspect(value) == [inspected |-> value]

\* one line handed to the logger
LogVerbose(text) == [level |-> "verbose", dump |-> text]
LogError(text) == [level |-> "error", text |-> text]

(***************************************************************************)
(* The validator (lines 129-148).                                          *)
(***************************************************************************)
\* the array declared outside the function and so kept across calls
NewErrorsKept(old) == old

\* line 131: every call starts from a fresh array
NewErrors(old) == <<>>

\* lines 140-141
FormatIssue(error) ==
    Join(error.path, ".") \o ": " \o Concat(toLowerCase(error.message))

\* the dump written in both modes
VerboseLinesAlways(cfg, mode) == <<LogVerbose(inspect(redact(cfg)))>>

\* line 134-135
VerboseLines(cfg, mode) ==
    IF ~mode THEN <<LogVerbose(inspect(redact(cfg)))>> ELSE <<>>

\* the count taken from the returned array instead of the issues
CountLinesOfErrors(result, mode) ==
    IF ~mode
    THEN <<LogError(ToString(0) \o " validation error(s)")>>
    ELSE <<>>

\* line 138
CountLines(result, mode) ==
    IF ~mode
    THEN <<LogError(ToString(Len(result.issues)) \o " validation error(s)")>>
    ELSE <<>>

\* lines 139-144: the forEach over the issues, in order; `acc` holds the
\* array of errors and the lines logged so far
RECURSIVE ForEachIssue(_, _, _)
ForEachIssue(issues, mode, acc) ==
    IF issues = <<>> THEN acc
    ELSE LET message == FormatIssue(Head(issues))
             next == IF mode
                     THEN [acc EXCEPT !.errors = Append(@, message)]
                     ELSE [acc EXCEPT !.log = Append(@, LogError(message))]
         IN  ForEachIssue(Tail(issues), mode, next)

\* the whole call: what it returns and what it logs
Run(cfg, mode, old) ==
    LET result == safeParse(cfg)
        start == [errors |-> NewErrors(old), log |-> VerboseLines(cfg, mode)]
        done == IF ~result.success
                THEN ForEachIssue(result.issues, mode,
                                  [start EXCEPT !.log = @ \o CountLines(result, mode)])
                ELSE start
    IN  [validate |-> result, errors |-> done.errors, log |-> done.log]

Validate(mode) ==
    LET out == Run(configuration, mode, errors)
    IN  /\ called' = TRUE
        /\ returnErrors' = mode
        /\ validate' = out.validate
        /\ errors' = out.errors
        /\ log' = out.log
        /\ previous' = IF called
                       THEN <<[returnErrors |-> returnErrors, errors |-> errors,
                               log |-> log, configuration |-> configuration]>>
                       ELSE <<>>
        /\ UNCHANGED configuration

\* validate(true)
ValidateReturn == Validate(TRUE)

\* validate() / validate(false)
ValidateLog == Validate(FALSE)

(***************************************************************************)
(* The configurations the validator is run on.  Every section has a        *)
(* default that passes the schema and a set of alternatives; the           *)
(* image-generation section ranges over engines, dimensions and the        *)
(* remaining parameters independently.                                     *)
(***************************************************************************)
\* how many sections other than stabilityai may differ from their default
MaxChangedSections == 1

DefaultSummary ==
    Obj([model |-> Str("gpt-4"), prompt |-> Str("summarize"), random |-> Str("surprise")])

DefaultOpenaiImage ==
    Obj([size |-> Str("512x512"), style |-> Arr(<<Str("oil painting")>>)])

OpenaiWith(key, image) ==
    Obj([key |-> key, summary |-> DefaultSummary, image |-> image])

Default ==
    [telemetry |-> Bool(TRUE),
     logs |-> Obj([level |-> Str("info")]),
     time |-> Obj([timezone |-> Str("utc")]),
     image |-> Obj([interval |-> Num(10), order |-> Str("random")]),
     transcript |-> Obj([cron |-> Str("0 * * * *"), minutes |-> Num(5), minimum |-> Num(1)]),
     openai |-> OpenaiWith(Str("sk-1"), DefaultOpenaiImage),
     system |-> Obj([port |-> Num(3000), storage |-> Obj([path |-> Str("/data")])])]

Sections == DOMAIN Default

Alternatives ==
    [telemetry |-> {Str("yes")},
     logs |-> {Obj([level |-> Str("trace")])},
     time |-> {Obj([timezone |-> Str("utc"), format |-> Null]),
               Obj([timezone |-> Str("utc"), format |-> Num(24)])},
     image |-> {Obj([interval |-> Num(9), order |-> Str("recent")]),
                Obj([interval |-> Num(9), order |-> Str("oldest")])},
     transcript |-> {Obj([minutes |-> Num(5), minimum |-> Num(0)])},
     openai |-> {OpenaiWith(Str("sk-1"), Bool(FALSE)),
                 OpenaiWith(Str("sk-1"),
                     Obj([size |-> Str("2048x2048"), style |-> Arr(<<Str("oil painting")>>)])),
                 OpenaiWith(Str("sk-1"),
                     Obj([size |-> Str("512x512"), style |-> Arr(<<>>)])),
                 OpenaiWith(Str("sk-1"),
                     Obj([size |-> Str("2048x2048"), style |-> Arr(<<>>)]))},
     system |-> {Obj([port |-> Str("3000")])}]

\* engine identifiers: one of the 768 family, one of another family, and one
\* that holds the characters 7, 6 and 8 but not the substring
EngineIds ==
    {<<"v", "2", "-", "7", "6", "8">>,
     <<"x", "l", "-", "1", "0", "2", "4">>,
     <<"v", "7", "6", "-", "8">>}

\* <<width, height>>: the boundary areas 512^2, 768^2 and 1024^2, areas on
\* both sides of them, and dimensions that are no multiples of 64
Dimensions ==
    {<<768, 768>>, <<512, 512>>, <<1024, 1024>>, <<256, 256>>,
     <<1088, 1024>>, <<100, 768>>, <<1000, 1000>>}

RestValid ==
    [timeout |-> Num(30), cfg_scale |-> Num(7), samples |-> Num(1), steps |-> Num(30),
     style |-> Arr(<<Str("photographic")>>)]

Rests ==
    {RestValid,
     [RestValid EXCEPT !.cfg_scale = Num(0), !.samples = Num(10), !.steps = Num(50)],
     [RestValid EXCEPT !.timeout = Str("30s")],
     [RestValid EXCEPT !.cfg_scale = Num(36)],
     [RestValid EXCEPT !.samples = Num(0), !.steps = Num(51)],
     [RestValid EXCEPT !.style = Arr(<<Str("photographic"), Str("bogus")>>)]}

ImageParameters(engine_id, width, height, rest) ==
    Obj([engine_id |-> engine_id, width |-> width, height |-> height,
         timeout |-> rest.timeout, cfg_scale |-> rest.cfg_scale,
         samples |-> rest.samples, steps |-> rest.steps, style |-> rest.style])

StabilityImages ==
    {ImageParameters(Str(e), Num(d[1]), Num(d[2]), r) :
        e \in EngineIds, d \in Dimensions, r \in Rests}
    \cup {ImageParameters(Num(768), Num(100), Num(768), RestValid),
          ImageParameters(Str(<<"v", "2", "-", "7", "6", "8">>), Str("768"), Num(768), RestValid),
          ImageParameters(Str(<<"x", "l", "-", "1", "0", "2", "4">>), NaN, Num(768), RestValid)}

Stabilityais ==
    {Undefined, Null, Bool(FALSE),
     Obj([key |-> Str("sk-2")]),
     Obj([key |-> Str("sk-2"), image |-> Bool(FALSE)]),
     Obj([key |-> Num(2), image |-> Bool(FALSE)])}
    \cup {Obj([key |-> Str("sk-2"), image |-> i]) : i \in StabilityImages}

\* the choices of the sections other than stabilityai
Choices(s) == {Default[s]} \cup Alternatives[s]

SectionChoices ==
    {c \in [telemetry : Choices("telemetry"), logs : Choices("logs"),
            time : Choices("time"), image : Choices("image"),
            transcript : Choices("transcript"), openai : Choices("openai"),
            system : Choices("system")] :
        Cardinality({s \in Sections : c[s] # Default[s]}) <= MaxChangedSections}

Configurations ==
    {Obj([telemetry |-> c["telemetry"], logs |-> c["logs"], time |-> c["time"],
          image |-> c["image"], transcript |-> c["transcript"], openai |-> c["openai"],
          stabilityai |-> s, system |-> c["system"]]) :
        c \in SectionChoices, s \in Stabilityais}

Init ==
    /\ configuration \in Configurations
    /\ called = FALSE
    /\ returnErrors = FALSE
    /\ validate = [success |-> TRUE, issues |-> <<>>]
    /\ errors = <<>>
    /\ log = <<>>
    /\ previous = <<>>

Next == ValidateReturn \/ ValidateLog

Spec == Init /\ [][Next]_vars

(***************************************************************************)
(* The rule set the properties below are stated against: one rule per      *)
(* field (its type, enumeration and range taken together), one per         *)
(* section that must be an object, and the three cross-field rules of the  *)
(* image-generation parameters.  Violations(cfg) is the set of rules a     *)
(* configuration violates, found field by field without any parser.        *)
(***************************************************************************)
Violation(path, rule) == [path |-> path, rule |-> rule]

Unless(holds, path) == IF holds THEN {} ELSE {Violation(path, "field")}

IsString(v) == v.k = "string"
IsNumber(v) == v.k = "number"
IsOneOf(v, values) == IsString(v) /\ v.s \in Range(values)
InRange(v, lo, hi) == IsNumber(v) /\ lo <= v.n /\ v.n <= hi
AtLeast(v, lo) == IsNumber(v) /\ lo <= v.n

\* the rules of an object section, or the one rule that it must be an object
Within(v, path, rules) == IF v.k = "object" THEN rules ELSE {Violation(path, "field")}

OpenaiImageRules(v, path) ==
    IF v = Bool(FALSE) THEN {}
    ELSE Within(v, path,
            Unless(IsOneOf(Field(v, "size"), OpenaiImageSizes), Append(path, "size"))
            \cup Unless(LET s == Field(v, "style")
                        IN  /\ s.k = "array"
                            /\ Len(s.items) >= 1
                            /\ \A i \in 1..Len(s.items) : IsString(s.items[i]),
                        Append(path, "style")))

HasDimensions(v) ==
    /\ v.k = "object"
    /\ IsNumber(Field(v, "width"))
    /\ IsNumber(Field(v, "height"))
    /\ IsString(Field(v, "engine_id"))

Area(v) == Field(v, "width").n * Field(v, "height").n

Is768Engine(v) ==
    LET e == Field(v, "engine_id").s
    IN  \E i \in 1..Len(e) : i + 2 <= Len(e) /\ e[i] = "7" /\ e[i + 1] = "6" /\ e[i + 2] = "8"

BreaksMultipleOf64(v) ==
    Field(v, "width").n % 64 # 0 \/ Field(v, "height").n % 64 # 0

BreaksArea768(v) == Is768Engine(v) /\ ~(589824 <= Area(v) /\ Area(v) <= 1048576)

BreaksAreaOther(v) == ~Is768Engine(v) /\ ~(262144 <= Area(v) /\ Area(v) <= 1048576)

CrossFieldRules(v, path) ==
    IF ~HasDimensions(v) THEN {}
    ELSE (IF BreaksMultipleOf64(v) THEN {Violation(path, "multiple-of-64")} ELSE {})
         \cup (IF BreaksArea768(v) THEN {Violation(path, "area-768")} ELSE {})
         \cup (IF BreaksAreaOther(v) THEN {Violation(path, "area-other")} ELSE {})

StabilityImageRules(v, path) ==
    IF v = Bool(FALSE) THEN {}
    ELSE Within(v, path,
            Unless(IsString(Field(v, "engine_id")), Append(path, "engine_id"))
            \cup Unless(IsNumber(Field(v, "width")), Append(path, "width"))
            \cup Unless(IsNumber(Field(v, "height")), Append(path, "height"))
            \cup Unless(IsNumber(Field(v, "timeout")), Append(path, "timeout"))
            \cup Unless(InRange(Field(v, "cfg_scale"), 0, 35), Append(path, "cfg_scale"))
            \cup Unless(InRange(Field(v, "samples"), 1, 10), Append(path, "samples"))
            \cup Unless(InRange(Field(v, "steps"), 10, 50), Append(path, "steps"))
            \cup Unless(LET s == Field(v, "style")
                        IN  /\ s.k = "array"
                            /\ Len(s.items) >= 1
                            /\ \A i \in 1..Len(s.items) : IsOneOf(s.items[i], StabilityStyles),
                        Append(path, "style"))
            \cup CrossFieldRules(v, path))

\* the section may be left out (undefined or null); otherwise it is an object
StabilityaiRules(v, path) ==
    IF v.k \in {"undefined", "null"} THEN {}
    ELSE Within(v, path,
            Unless(IsString(Field(v, "key")), Append(path, "key"))
            \cup StabilityImageRules(Field(v, "image"), Append(path, "image")))

Violations(cfg) ==
    Unless(Field(cfg, "telemetry").k = "boolean", <<"telemetry">>)
    \cup Within(Field(cfg, "logs"), <<"logs">>,
            Unless(IsOneOf(Field(Field(cfg, "logs"), "level"), LogLevels), <<"logs", "level">>))
    \cup Within(Field(cfg, "time"), <<"time">>,
            Unless(IsString(Field(Field(cfg, "time"), "timezone")), <<"time", "timezone">>)
            \cup Unless(Field(Field(cfg, "time"), "format").k \in {"string", "undefined", "null"},
                        <<"time", "format">>))
    \cup Within(Field(cfg, "image"), <<"image">>,
            Unless(AtLeast(Field(Field(cfg, "image"), "interval"), 10), <<"image", "interval">>)
            \cup Unless(IsOneOf(Field(Field(cfg, "image"), "order"), ImageOrders),
                        <<"image", "order">>))
    \cup Within(Field(cfg, "transcript"), <<"transcript">>,
            Unless(IsString(Field(Field(cfg, "transcript"), "cron")), <<"transcript", "cron">>)
            \cup Unless(IsNumber(Field(Field(cfg, "transcript"), "minutes")),
                        <<"transcript", "minutes">>)
            \cup Unless(AtLeast(Field(Field(cfg, "transcript"), "minimum"), 1),
                        <<"transcript", "minimum">>))
    \cup Within(Field(cfg, "openai"), <<"openai">>,
            Unless(IsString(Field(Field(cfg, "openai"), "key")), <<"openai", "key">>)
            \cup Within(Field(Field(cfg, "openai"), "summary"), <<"openai", "summary">>,
                    Unless(IsString(Field(Field(Field(cfg, "openai"), "summary"), "model")),
                           <<"openai", "summary", "model">>)
                    \cup Unless(IsString(Field(Field(Field(cfg, "openai"), "summary"), "prompt")),
                                <<"openai", "summary", "prompt">>)
                    \cup Unless(IsString(Field(Field(Field(cfg, "openai"), "summary"), "random")),
                                <<"openai", "summary", "random">>))
            \cup OpenaiImageRules(Field(Field(cfg, "openai"), "image"), <<"openai", "image">>))
    \cup StabilityaiRules(Field(cfg, "stabilityai"), <<"stabilityai">>)
    \cup Within(Field(cfg, "system"), <<"system">>,
            Unless(IsNumber(Field(Field(cfg, "system"), "port")), <<"system", "port">>)
            \cup Within(Field(Field(cfg, "system"), "storage"), <<"system", "storage">>,
                    Unless(IsString(Field(Field(Field(cfg, "system"), "storage"), "path")),
                           <<"system", "storage", "path">>)))

\* the text validate(true) returns for a cross-field rule
TextMultipleOf64 == "stabilityai.image: width and height must be multiples of 64"
TextArea768 ==
    "stabilityai.image: size must be between 589,824 (768x768) and 1,048,576 (1024x1024) for engine_id containing 768"
TextAreaOther ==
    "stabilityai.image: size must be between 262,144 (512x512) and 1,048,576 (1024x1024) for other engine_ids"

RuleText(rule) ==
    CASE rule = "multiple-of-64" -> TextMultipleOf64
      [] rule = "area-768" -> TextArea768
      [] rule = "area-other" -> TextAreaOther

\* the most recent call was validate(true) / validate(false)
Returned == called /\ returnErrors
Logged == called /\ ~returnErrors

\* errors[i] is the message of the issue validate.issues[i]
MessageOf(i) ==
    /\ i <= Len(validate.issues)
    /\ errors[i] = Join(validate.issues[i].path, ".") \o ": "
                   \o Concat(toLowerCase(validate.issues[i].message))

\* a returned message whose dotted path is the path of the violated rule (for
\* a cross-field rule: the message of that rule)
Names(i, v) ==
    IF v.rule = "field"
    THEN MessageOf(i) /\ validate.issues[i].path = v.path
    ELSE errors[i] = RuleText(v.rule)

\* a returned message at the path of the violated rule or at a path enclosing it
Covers(i, v) ==
    IF v.rule = "field"
    THEN MessageOf(i) /\ IsPrefix(validate.issues[i].path, v.path)
    ELSE errors[i] = RuleText(v.rule)

StabilityImage == Field(Field(configuration, "stabilityai"), "image")

\* the image-generation section is present and its image parameters are enabled
ImageEnabled == HasDimensions(StabilityImage)

(***************************************************************************)
(* Properties.                                                             *)
(***************************************************************************)

\* C1: validate(true) reports every violated rule in one call: when a
\* configuration violates several rules at once, the returned sequence holds
\* a message for each of them.  Stated in its weakest form: there are at least
\* as many messages as violated rules, and every violated rule has a message
\* at its path or at an enclosing path (a cross-field rule: its own message).
C1_ReportsEveryViolation ==
    (Returned /\ Cardinality(Violations(configuration)) >= 2) =>
        /\ Len(errors) >= Cardinality(Violations(configuration))
        /\ \A v \in Violations(configuration) : \E i \in 1..Len(errors) : Covers(i, v)

\* C2: for every configuration that satisfies every rule of the rule set,
\* validate(true) returns the empty sequence.
C2_ValidConfigurationReturnsNothing ==
    (Returned /\ Violations(configuration) = {}) => errors = <<>>

C2_Witness ==
    /\ Returned
    /\ Violations(configuration) = {}
    /\ ImageEnabled
    /\ Field(Field(configuration, "openai"), "image") # Bool(FALSE)
    /\ errors = <<>>

\* C3: for every configuration that violates exactly one rule, validate(true)
\* returns at least one message, and one of the messages has the dotted path
\* of the violated field, also when the field lies inside an object-or-false
\* union.
C3_SingleViolationIsNamed ==
    (Returned /\ Cardinality(Violations(configuration)) = 1) =>
        /\ Len(errors) >= 1
        /\ \A v \in Violations(configuration) : \E i \in 1..Len(errors) : Names(i, v)

\* C4: with the image parameters enabled, validate(true) holds the 768-engine
\* area message exactly when engine_id contains "768" and width*height is
\* outside [589824, 1048576], holds the other-engines area message exactly when
\* engine_id does not contain "768" and width*height is outside
\* [262144, 1048576], and never holds both.
C4_AreaRule ==
    (Returned /\ ImageEnabled) =>
        /\ TextArea768 \in Range(errors) <=> BreaksArea768(StabilityImage)
        /\ TextAreaOther \in Range(errors) <=> BreaksAreaOther(StabilityImage)
        /\ ~(TextArea768 \in Range(errors) /\ TextAreaOther \in Range(errors))

\* C5: with the image parameters enabled, validate(true) holds the
\* multiple-of-64 message exactly when width mod 64 # 0 or height mod 64 # 0,
\* whatever the engine identifier and whether or not the area rule passes.
C5_MultipleOf64Rule ==
    (Returned /\ ImageEnabled) =>
        (TextMultipleOf64 \in Range(errors) <=> BreaksMultipleOf64(StabilityImage))

\* every image parameter has its declared type and every style entry is in
\* the enumeration (a number may still be out of its range)
WellTypedParameters ==
    /\ HasDimensions(StabilityImage)
    /\ \A name \in {"timeout", "cfg_scale", "samples", "steps"} :
           IsNumber(Field(StabilityImage, name))
    /\ LET s == Field(StabilityImage, "style")
       IN  /\ s.k = "array"
           /\ \A i \in 1..Len(s.items) : IsOneOf(s.items[i], StabilityStyles)

\* The cross-field rules where the refinements do run: on parameters that
\* pass every type and enumeration rule, each of the three messages appears
\* exactly when its rule is broken.
CrossFieldRulesOnWellTypedParameters ==
    (Returned /\ WellTypedParameters) =>
        /\ TextArea768 \in Range(errors) <=> BreaksArea768(StabilityImage)
        /\ TextAreaOther \in Range(errors) <=> BreaksAreaOther(StabilityImage)
        /\ TextMultipleOf64 \in Range(errors) <=> BreaksMultipleOf64(StabilityImage)

\* no returned message lies at or under the given path
NoMessageUnder(path) ==
    /\ Len(errors) = Len(validate.issues)
    /\ \A i \in 1..Len(errors) : MessageOf(i) /\ ~IsPrefix(path, validate.issues[i].path)

Stabilityai == Field(configuration, "stabilityai")

\* an object with a string key whose image sub-configuration is false or
\* passes every field and cross-field rule
PopulatedStabilityai ==
    /\ Stabilityai.k = "object"
    /\ StabilityaiRules(Stabilityai, <<"stabilityai">>) = {}

\* C6 as claimed: the image-generation section is accepted in exactly three
\* shapes: absent, the single sentinel false, or a populated object passing
\* every rule; each of the three gives no message for the section and every
\* other shape gives at least one.
C6_ThreeShapesWithFalse ==
    Returned =>
        (NoMessageUnder(<<"stabilityai">>) <=>
            \/ Stabilityai = Undefined
            \/ Stabilityai = Bool(FALSE)
            \/ PopulatedStabilityai)

\* C6 as amended: the section is accepted exactly when it is absent
\* (undefined), null, or a populated object passing every rule; the boolean
\* false for the section as a whole, like every other shape, gives at least
\* one message for the section.
C6_ThreeShapesWithNull ==
    Returned =>
        (NoMessageUnder(<<"stabilityai">>) <=>
            \/ Stabilityai = Undefined
            \/ Stabilityai = Null
            \/ PopulatedStabilityai)

C6_Witness ==
    /\ Returned
    /\ Stabilityai = Null
    /\ NoMessageUnder(<<"stabilityai">>)
    /\ errors # <<>>

\* C7: when the image sub-configuration of the image-generation section is
\* the sentinel false, validate(true) holds no message at or under
\* stabilityai.image, whatever the rest of the configuration is.
C7_DisabledImageBypassesRules ==
    (Returned /\ Stabilityai.k = "object" /\ StabilityImage = Bool(FALSE)) =>
        NoMessageUnder(<<"stabilityai", "image">>)

C7_Witness ==
    /\ Returned
    /\ Stabilityai.k = "object"
    /\ StabilityImage = Bool(FALSE)
    /\ Cardinality(Violations(configuration)) >= 2
    /\ Len(errors) >= 2
    /\ NoMessageUnder(<<"stabilityai", "image">>)

\* C8: the two output channels exclude each other: validate(false) returns
\* the empty sequence for every configuration, and validate(true) writes no
\* log line at any level.
C8_ChannelsAreExclusive ==
    /\ Logged => errors = <<>>
    /\ Returned => log = <<>>

C8_Witness ==
    /\ Logged
    /\ ~validate.success
    /\ errors = <<>>
    /\ Len(log) >= 3

\* C9: in log mode with n violations, exactly one verbose line is written
\* (n = 0 or not); an error-level count line is written exactly when n > 0
\* and carries n; and n error-level lines follow, one per violation, in the
\* order of the violations.
C9_LogLines ==
    Logged =>
        LET n == Len(validate.issues)
            count == LogError(ToString(n) \o " validation error(s)")
        IN  /\ Cardinality({i \in 1..Len(log) : log[i].level = "verbose"}) = 1
            /\ log[1].level = "verbose"
            /\ (n = 0) <=> validate.success
            /\ Len(log) = IF n > 0 THEN n + 2 ELSE 1
            /\ n > 0 => log[2] = count
            /\ \A i \in 1..n :
                   log[i + 2] = LogError(Join(validate.issues[i].path, ".") \o ": "
                                         \o Concat(toLowerCase(validate.issues[i].message)))

C9_Witness ==
    /\ Logged
    /\ Len(validate.issues) >= 3
    /\ Len(log) = Len(validate.issues) + 2

\* C10: two consecutive calls of validate with the same mode on the same
\* configuration give the same result (the same returned sequence and the same
\* log lines), and a call leaves the configuration as it found it.
C10_Idempotent ==
    (called /\ previous # <<>>) =>
        /\ previous[1].configuration = configuration
        /\ previous[1].returnErrors = returnErrors =>
               /\ previous[1].errors = errors
               /\ previous[1].log = log

C10_Witness ==
    /\ Returned
    /\ previous # <<>>
    /\ previous[1].returnErrors
    /\ Len(errors) >= 2
    /\ previous[1].errors = errors

====
